---- MODULE Spec2Model ----
(***************************************************************************)
(* Model of the inference wrappers of ai-inference-managed-by-ai:          *)
(*   - docker/qwen3-omni-server/service.py : text service, background      *)
(*     loader thread plus HTTP handlers reading five module globals;       *)
(*   - docker/tts/main.py : TTS service, model loaded inside lifespan;     *)
(*   - scripts/fix_qwen3_omni_config.py : the config patcher.              *)
(* Python's None is the string "None".  A handler of the text service runs *)
(* on the event loop thread, the loader on its own thread: every read or   *)
(* write of a module global is one step, and the steps of the two threads  *)
(* interleave freely.  Handlers are coroutines without an await, so they   *)
(* never interleave with each other: one handler frame is in flight.       *)
(***************************************************************************)
EXTENDS Integers, Sequences, FiniteSets, TLC

VARIABLES
    \* ---- text service: module globals (service.py:30-34)
    model, processor, model_loading, model_loaded, loading_error,
    \* ---- text service: threads running load_model_async
    lpc,        \* position of each caller inside load_model_async
    lexc,       \* the exception a caller raised ("None" while none)
    \* ---- text service: the request handler in flight
    rpc,        \* position of the handler
    frame,      \* the handler's locals: endpoint and the values read so far
    resp,       \* the last response sent
    issued,     \* the flags when the request was issued
    answered,   \* the flags when the response was determined
    \* ---- TTS service (main.py)
    tts_model, tts_model_loaded, tpc, treq, tresp,
    \* ---- config patcher (fix_qwen3_omni_config.py)
    fs,         \* the files of the model directory: name -> content
    fpc,        \* position inside fix_config
    config,     \* the local `config` of fix_config
    hist        \* the file system after each completed run (hist[1]: before)

textVars == <<model, processor, model_loading, model_loaded, loading_error,
              lpc, lexc, rpc, frame, resp, issued, answered>>
ttsVars == <<tts_model, tts_model_loaded, tpc, treq, tresp>>
fixVars == <<fs, fpc, config, hist>>
vars == <<textVars, ttsVars, fixVars>>

globals == <<model, processor, model_loading, model_loaded, loading_error>>

\* ------------------------------------------------------------------ bounds
\* The callers of load_model_async in the re-entry harness.
NumCallers == 2

Callers == 1 .. NumCallers

\* ------------------------------------------------- text service: the state
\* The three flags a handler can read.
Flags == [loading |-> model_loading, loaded |-> model_loaded, error |-> loading_error]

\* ServiceState of a flag triple, in the order the inference gate tests the
\* flags (service.py:177-181): model_loaded first, then model_loading.
StateOf(f) ==
    IF f.loaded THEN "loaded"
    ELSE IF f.loading THEN "loading"
    ELSE IF f.error # "None" THEN "failed"
    ELSE "idle"

ServiceState == StateOf(Flags)

NoResponse == [code |-> 0]

TextInit ==
    /\ model = "None"
    /\ processor = "None"
    /\ model_loading = FALSE
    /\ model_loaded = FALSE
    /\ loading_error = "None"
    /\ lpc = [t \in Callers |-> "not_started"]
    /\ lexc = [t \in Callers |-> "None"]
    /\ rpc = "idle"
    /\ frame = [endpoint |-> "None"]
    /\ resp = NoResponse
    /\ issued = [loading |-> FALSE, loaded |-> FALSE, error |-> "None"]
    /\ answered = [loading |-> FALSE, loaded |-> FALSE, error |-> "None"]

\* ------------------------------------------- text service: load_model_async
\* threading.Thread(target=load_model_async).start()
ThreadStart(t) ==
    /\ lpc[t] = "not_started"
    /\ lpc' = [lpc EXCEPT ![t] = "guard_loading"]
    /\ UNCHANGED <<ttsVars, fixVars, globals, lexc, rpc, frame, resp, issued, answered>>

\* `if model_loading or model_loaded: return`, left operand.
GuardLoading(t) ==
    /\ lpc[t] = "guard_loading"
    /\ lpc' = [lpc EXCEPT ![t] = IF model_loading THEN "returned" ELSE "guard_loaded"]
    /\ UNCHANGED <<ttsVars, fixVars, globals, lexc, rpc, frame, resp, issued, answered>>

\* `if model_loading or model_loaded: return`, right operand.
GuardLoaded(t) ==
    /\ lpc[t] = "guard_loaded"
    /\ lpc' = [lpc EXCEPT ![t] = IF model_loaded THEN "returned" ELSE "set_loading"]
    /\ UNCHANGED <<ttsVars, fixVars, globals, lexc, rpc, frame, resp, issued, answered>>

\* model_loading = True
SetLoading(t) ==
    /\ lpc[t] = "set_loading"
    /\ model_loading' = TRUE
    /\ lpc' = [lpc EXCEPT ![t] = "preamble"]
    /\ UNCHANGED <<ttsVars, fixVars, model, processor, model_loaded, loading_error, lexc,
                   rpc, frame, resp, issued, answered>>

\* The prints and torch.cuda queries between the flag and the try block.
Preamble(t) ==
    /\ lpc[t] = "preamble"
    /\ lpc' = [lpc EXCEPT ![t] = "import"]
    /\ UNCHANGED <<ttsVars, fixVars, globals, lexc, rpc, frame, resp, issued, answered>>

\* The same lines raising (torch.cuda.get_device_name / get_device_properties
\* initialise CUDA and raise RuntimeError when that fails): no try encloses
\* them, the exception ends the thread.
PreambleRaise(t) ==
    /\ lpc[t] = "preamble"
    /\ lexc' = [lexc EXCEPT ![t] = "RuntimeError"]
    /\ lpc' = [lpc EXCEPT ![t] = "crashed"]
    /\ UNCHANGED <<ttsVars, fixVars, globals, rpc, frame, resp, issued, answered>>

\* from transformers import ... (first statement of the try block)
Import(t) ==
    /\ lpc[t] = "import"
    /\ lpc' = [lpc EXCEPT ![t] = "load_processor"]
    /\ UNCHANGED <<ttsVars, fixVars, globals, lexc, rpc, frame, resp, issued, answered>>

\* processor = AutoProcessor.from_pretrained(...)
LoadProcessor(t) ==
    /\ lpc[t] = "load_processor"
    /\ processor' = "Processor"
    /\ lpc' = [lpc EXCEPT ![t] = "load_model"]
    /\ UNCHANGED <<ttsVars, fixVars, model, model_loading, model_loaded, loading_error, lexc,
                   rpc, frame, resp, issued, answered>>

\* model = Qwen3OmniMoeForConditionalGeneration.from_pretrained(...)
LoadModel(t) ==
    /\ lpc[t] = "load_model"
    /\ model' = "Model"
    /\ lpc' = [lpc EXCEPT ![t] = "model_info"]
    /\ UNCHANGED <<ttsVars, fixVars, processor, model_loading, model_loaded, loading_error, lexc,
                   rpc, frame, resp, issued, answered>>

\* print(model.device), total_params = sum(...)
ModelInfo(t) ==
    /\ lpc[t] = "model_info"
    /\ lpc' = [lpc EXCEPT ![t] = "set_loaded"]
    /\ UNCHANGED <<ttsVars, fixVars, globals, lexc, rpc, frame, resp, issued, answered>>

\* The exception each statement of the try block can raise.
TryError(pc) ==
    CASE pc = "import" -> "ImportError"
      [] pc = "load_processor" -> "OSError: processor"
      [] pc = "load_model" -> "OSError: model"
      [] pc = "model_info" -> "RuntimeError"

\* A statement of the try block raising: control moves to the except clause.
TryRaise(t) ==
    /\ lpc[t] \in {"import", "load_processor", "load_model", "model_info"}
    /\ lexc' = [lexc EXCEPT ![t] = TryError(lpc[t])]
    /\ lpc' = [lpc EXCEPT ![t] = "except"]
    /\ UNCHANGED <<ttsVars, fixVars, globals, rpc, frame, resp, issued, answered>>

\* model_loaded = True
SetLoaded(t) ==
    /\ lpc[t] = "set_loaded"
    /\ model_loaded' = TRUE
    /\ lpc' = [lpc EXCEPT ![t] = "clear_error"]
    /\ UNCHANGED <<ttsVars, fixVars, model, processor, model_loading, loading_error, lexc,
                   rpc, frame, resp, issued, answered>>

\* loading_error = None
ClearError(t) ==
    /\ lpc[t] = "clear_error"
    /\ loading_error' = "None"
    /\ lpc' = [lpc EXCEPT ![t] = "finally"]
    /\ UNCHANGED <<ttsVars, fixVars, model, processor, model_loading, model_loaded, lexc,
                   rpc, frame, resp, issued, answered>>

\* except Exception as e: loading_error = str(e)
Except(t) ==
    /\ lpc[t] = "except"
    /\ loading_error' = lexc[t]
    /\ lpc' = [lpc EXCEPT ![t] = "finally"]
    /\ UNCHANGED <<ttsVars, fixVars, model, processor, model_loading, model_loaded, lexc,
                   rpc, frame, resp, issued, answered>>

\* Finally with a retry after a failed load: the loader starts over.
FinallyRetries(t) ==
    /\ lpc[t] = "finally"
    /\ model_loading' = FALSE
    /\ lpc' = [lpc EXCEPT ![t] = IF loading_error # "None" THEN "guard_loading" ELSE "done"]
    /\ UNCHANGED <<ttsVars, fixVars, model, processor, model_loaded, loading_error, lexc,
                   rpc, frame, resp, issued, answered>>

\* finally: model_loading = False
Finally(t) ==
    /\ lpc[t] = "finally"
    /\ model_loading' = FALSE
    /\ lpc' = [lpc EXCEPT ![t] = "done"]
    /\ UNCHANGED <<ttsVars, fixVars, model, processor, model_loaded, loading_error, lexc,
                   rpc, frame, resp, issued, answered>>

\* One step of load_model_async on thread t.
load_model_async(t) ==
    \/ GuardLoading(t)
    \/ GuardLoaded(t)
    \/ SetLoading(t)
    \/ Preamble(t)
    \/ PreambleRaise(t)
    \/ Import(t)
    \/ LoadProcessor(t)
    \/ LoadModel(t)
    \/ ModelInfo(t)
    \/ TryRaise(t)
    \/ SetLoaded(t)
    \/ ClearError(t)
    \/ Except(t)
    \/ Finally(t)

\* lifespan: the one thread the service starts; requests are served after it.
lifespan == ThreadStart(1)

\* ------------------------------------------------ text service: handlers
Endpoints == {"/health", "/status", "/v1/models", "/v1/chat/completions", "/inference/text"}

InferenceEndpoints == {"/v1/chat/completions", "/inference/text"}

\* The first position of the handler of an endpoint.
Entry(ep) ==
    CASE ep = "/health" -> "h_status"
      [] ep = "/status" -> "s_loaded"
      [] ep = "/v1/models" -> "list_models"
      [] ep \in InferenceEndpoints -> "gate_loaded"

\* The event loop dispatches a request: uvicorn serves only after lifespan
\* has started the loader thread, and one handler runs at a time.
Dispatch(ep) ==
    /\ lpc[1] # "not_started"
    /\ rpc \in {"idle", "done"}
    /\ rpc' = Entry(ep)
    /\ frame' = [endpoint |-> ep]
    /\ resp' = NoResponse
    /\ issued' = Flags
    /\ UNCHANGED <<ttsVars, fixVars, globals, lpc, lexc, answered>>

\* The handler returns or raises HTTPException: the response is determined.
Respond(r) ==
    /\ resp' = r
    /\ answered' = Flags
    /\ rpc' = "done"
    /\ UNCHANGED <<ttsVars, fixVars, globals, lpc, lexc, frame, issued>>

\* The handler reads a global into a local and moves on.
Read(name, value, next) ==
    /\ frame' = (name :> value) @@ frame
    /\ rpc' = next
    /\ UNCHANGED <<ttsVars, fixVars, globals, lpc, lexc, resp, issued, answered>>

\* status="loading" if model_loading else (...): the test of model_loading.
HealthStatus ==
    /\ rpc = "h_status"
    /\ IF model_loading
       THEN Read("status", "loading", "h_device")
       ELSE /\ rpc' = "h_status2"
            /\ UNCHANGED <<ttsVars, fixVars, globals, lpc, lexc, frame, resp, issued, answered>>

\* HealthStatus2 testing model_loading where the code tests model_loaded.
HealthStatus2TestsLoading ==
    /\ rpc = "h_status2"
    /\ Read("status", IF model_loading THEN "healthy" ELSE "unhealthy", "h_device")

\* ("healthy" if model_loaded else "unhealthy")
HealthStatus2 ==
    /\ rpc = "h_status2"
    /\ Read("status", IF model_loaded THEN "healthy" ELSE "unhealthy", "h_device")

\* device=str(model.device) if model else DEVICE
Device == IF model # "None" THEN "model.device" ELSE "DEVICE"

HealthDevice ==
    /\ rpc = "h_device"
    /\ Read("device", Device, "h_loaded")

\* loaded=model_loaded
HealthLoaded ==
    /\ rpc = "h_loaded"
    /\ Read("loaded", model_loaded, "h_loading")

\* The HealthResponse model: status, model, device, loaded, loading.
HealthResponse(status, device, loaded, loading) ==
    [status |-> status, model |-> "Qwen3-Omni-30B-A3B", device |-> device,
     loaded |-> loaded, loading |-> loading]

\* loading=model_loading, and the HealthResponse is returned.
HealthLoading ==
    /\ rpc = "h_loading"
    /\ Respond([code |-> 200,
                body |-> HealthResponse(frame.status, frame.device, frame.loaded,
                                        model_loading)])

\* GET /health
health ==
    \/ HealthStatus
    \/ HealthStatus2
    \/ HealthDevice
    \/ HealthLoaded
    \/ HealthLoading

\* "loaded": model_loaded
StatusLoaded ==
    /\ rpc = "s_loaded"
    /\ Read("loaded", model_loaded, "s_loading")

\* "loading": model_loading
StatusLoading ==
    /\ rpc = "s_loading"
    /\ Read("loading", model_loading, "s_error")

\* "error": loading_error
StatusError ==
    /\ rpc = "s_error"
    /\ Read("error", loading_error, "s_device")

\* "device": ..., and the dict is returned.
StatusDevice ==
    /\ rpc = "s_device"
    /\ Respond([code |-> 200,
                body |-> [model |-> "Qwen3-Omni-30B-A3B", loaded |-> frame.loaded,
                          loading |-> frame.loading, error |-> frame.error,
                          device |-> Device]])

\* GET /status
status ==
    \/ StatusLoaded
    \/ StatusLoading
    \/ StatusError
    \/ StatusDevice

\* GET /v1/models
list_models ==
    /\ rpc = "list_models"
    /\ Respond([code |-> 200, body |-> [object |-> "list", id |-> "/models"]])

\* GateLoaded letting a request through whenever no load is in progress.
GateLoadedTestsLoading(ep) ==
    /\ frame.endpoint = ep
    /\ rpc = "gate_loaded"
    /\ Read("observed_loaded", model_loaded,
            IF ~model_loading THEN "adapter" ELSE "gate_loading")

\* `if not model_loaded:` of an inference endpoint.
GateLoaded(ep) ==
    /\ frame.endpoint = ep
    /\ rpc = "gate_loaded"
    /\ Read("observed_loaded", model_loaded,
            IF model_loaded THEN "adapter" ELSE "gate_loading")

\* `if model_loading: raise 503 still loading  else: raise 503 failed to load`
GateLoading(ep) ==
    /\ frame.endpoint = ep
    /\ rpc = "gate_loading"
    /\ Respond([code |-> 503,
                detail |-> IF model_loading
                           THEN "Model is still loading, please wait..."
                           ELSE "Model failed to load"])

\* The try block of an inference endpoint: processor.apply_chat_template,
\* processor(...), model.generate, processor.batch_decode, all succeeding.
Adapter(ep) ==
    /\ frame.endpoint = ep
    /\ rpc = "adapter"
    /\ processor # "None"
    /\ model # "None"
    /\ Respond([code |-> 200,
                body |-> IF ep = "/v1/chat/completions"
                         THEN [object |-> "chat.completion"]
                         ELSE [text |-> "response"]])

\* AdapterRaise recording the request's error as a load failure.
AdapterRaiseMarksFailed(ep) ==
    /\ frame.endpoint = ep
    /\ rpc = "adapter"
    /\ resp' = [code |-> 500, detail |-> "str(e)"]
    /\ answered' = Flags
    /\ rpc' = "done"
    /\ model_loaded' = FALSE
    /\ loading_error' = "str(e)"
    /\ UNCHANGED <<ttsVars, fixVars, model, processor, model_loading, lpc, lexc, frame, issued>>

\* The try block raising (a None processor or model included): caught by
\* `except Exception as e` and reported as HTTPException(500, str(e)).
AdapterRaise(ep) ==
    /\ frame.endpoint = ep
    /\ rpc = "adapter"
    /\ Respond([code |-> 500, detail |-> "str(e)"])

\* The body shared by the two inference endpoints.
Inference(ep) ==
    \/ GateLoaded(ep)
    \/ GateLoading(ep)
    \/ Adapter(ep)
    \/ AdapterRaise(ep)

\* POST /v1/chat/completions
chat_completion == Inference("/v1/chat/completions")

\* POST /inference/text
text_inference == Inference("/inference/text")

\* One step of the handler in flight.
Handler ==
    \/ health
    \/ status
    \/ list_models
    \/ chat_completion
    \/ text_inference

\* ============================================================ TTS service
\* Bound on len(text) of a request (the code allows 1..5000).
MaxTextLen == 12

\* Request speeds in hundredths (0.5, 1.0, 2.0), inside Field(ge=0.5, le=2.0).
Speeds == {50, 100, 200}

\* chars_per_sec = 3.0 if has_chinese else 5.0
CharsPerSec(has_chinese) == IF has_chinese THEN 3 ELSE 5

\* Duration multiplying by speed where the code divides by it.
DurationTimesSpeed(len, has_chinese, speed100) ==
    IF len * speed100 >= CharsPerSec(has_chinese) * 100
    THEN [num |-> len * speed100, den |-> CharsPerSec(has_chinese) * 100]
    ELSE [num |-> 1, den |-> 1]

\* duration = max(1.0, len(text) / chars_per_sec / speed), as an exact
\* fraction num/den of seconds (speed = speed100 / 100).
Duration(len, has_chinese, speed100) ==
    IF len * 100 >= CharsPerSec(has_chinese) * speed100
    THEN [num |-> len * 100, den |-> CharsPerSec(has_chinese) * speed100]
    ELSE [num |-> 1, den |-> 1]

TTSEndpoints == {"/v1/tts", "/v1/audio/speech"}

TTSRequests ==
    [endpoint : TTSEndpoints, len : 1 .. MaxTextLen, has_chinese : BOOLEAN, speed : Speeds]

TTSInit ==
    /\ tts_model = "None"
    /\ tts_model_loaded = FALSE
    /\ tpc = "startup"
    /\ treq = [endpoint |-> "None"]
    /\ tresp = NoResponse

\* lifespan, startup: model files missing -> model_loaded = False, yield.
LifespanNoFiles ==
    /\ tpc = "startup"
    /\ tts_model_loaded' = FALSE
    /\ tpc' = "serving"
    /\ UNCHANGED <<textVars, fixVars, tts_model, treq, tresp>>

\* lifespan, startup: model_files_exist holds, the try block is entered.
LifespanFilesExist ==
    /\ tpc = "startup"
    /\ tpc' = "load"
    /\ UNCHANGED <<textVars, fixVars, tts_model, tts_model_loaded, treq, tresp>>

\* model = Qwen3TTSModel.from_pretrained(MODEL_PATH); model_loaded = True
LifespanLoad ==
    /\ tpc = "load"
    /\ tts_model' = "Qwen3TTSModel"
    /\ tts_model_loaded' = TRUE
    /\ tpc' = "serving"
    /\ UNCHANGED <<textVars, fixVars, treq, tresp>>

\* from_pretrained raises: except Exception -> model_loaded = False
LifespanLoadRaise ==
    /\ tpc = "load"
    /\ tts_model_loaded' = FALSE
    /\ tpc' = "serving"
    /\ UNCHANGED <<textVars, fixVars, tts_model, treq, tresp>>

\* lifespan after the yield: model_loaded = False; model = None
LifespanShutdown ==
    /\ tpc = "serving"
    /\ tts_model_loaded' = FALSE
    /\ tts_model' = "None"
    /\ tpc' = "stopped"
    /\ UNCHANGED <<textVars, fixVars, treq, tresp>>

\* lifespan of the TTS service
tts_lifespan ==
    \/ LifespanNoFiles
    \/ LifespanFilesExist
    \/ LifespanLoad
    \/ LifespanLoadRaise
    \/ LifespanShutdown

\* `model is not None and model_loaded`
RealModel == tts_model # "None" /\ tts_model_loaded

\* A handler of the TTS service answers request q with r; handlers run on
\* the event loop between lifespan's startup and shutdown.
Answer(q, ep, r) ==
    /\ tpc = "serving"
    /\ q.endpoint = ep
    /\ treq' = q
    /\ tresp' = r
    /\ UNCHANGED <<textVars, fixVars, tts_model, tts_model_loaded, tpc>>

\* POST /v1/tts, real-model branch: generate_voice_clone succeeds.
TtsReal(q) ==
    /\ RealModel
    /\ Answer(q, "/v1/tts", [code |-> 200, real_model |-> TRUE, format |-> "base64"])

\* POST /v1/tts, fallback branch: generate_fallback_audio.
TtsFallback(q) ==
    /\ ~RealModel
    /\ Answer(q, "/v1/tts",
              [code |-> 200, real_model |-> FALSE, format |-> "base64",
               duration |-> Duration(q.len, q.has_chinese, q.speed)])

\* POST /v1/tts: either branch raising, caught as HTTPException(500).
TtsRaise(q) ==
    /\ tpc = "serving"
    /\ Answer(q, "/v1/tts", [code |-> 500, detail |-> "TTS error"])

\* POST /v1/tts
text_to_speech(q) ==
    \/ TtsReal(q)
    \/ TtsFallback(q)
    \/ TtsRaise(q)

\* SpeechGate missing: the None model is used, the AttributeError gives 500.
SpeechGateMissing(q) ==
    /\ ~RealModel
    /\ Answer(q, "/v1/audio/speech", [code |-> 500, detail |-> "TTS error"])

\* POST /v1/audio/speech: `if model is None or not model_loaded: raise 503`
SpeechGate(q) ==
    /\ ~RealModel
    /\ Answer(q, "/v1/audio/speech", [code |-> 503, detail |-> "Model not loaded"])

\* POST /v1/audio/speech: generate_voice_clone succeeds, FileResponse.
SpeechReal(q) ==
    /\ RealModel
    /\ Answer(q, "/v1/audio/speech",
              [code |-> 200, real_model |-> TRUE, format |-> "audio/wav"])

\* POST /v1/audio/speech: the try block raising -> HTTPException(500).
SpeechRaise(q) ==
    /\ RealModel
    /\ Answer(q, "/v1/audio/speech", [code |-> 500, detail |-> "TTS error"])

\* POST /v1/audio/speech
openai_compatible_tts(q) ==
    \/ SpeechGate(q)
    \/ SpeechReal(q)
    \/ SpeechRaise(q)

\* ========================================================= config patcher
\* Bound on the number of runs of fix_config in a row.
MaxRuns == 3

ConfigPath == "config.json"

\* backup_path = config_path + '.backup'
BackupPath == "config.json.backup"

Empty == [k \in {} |-> TRUE]

\* code_predictor_config objects: each of the two keys present or missing.
CodePredictorConfigs ==
    {[num_hidden_layers |-> 5] @@ u @@ w :
        u \in {Empty} \cup {[use_sliding_window |-> b] : b \in BOOLEAN},
        w \in {Empty} \cup {[sliding_window |-> n] : n \in {72, 4096}}}

TalkerConfigs ==
    {[hidden_size |-> 1024]}
    \cup {[hidden_size |-> 1024, code_predictor_config |-> c] : c \in CodePredictorConfigs}

\* The JSON values of config.json the model draws from.
Configs ==
    {[model_type |-> "qwen3_omni_moe"]}
    \cup {[model_type |-> "qwen3_omni_moe", talker_config |-> t] : t \in TalkerConfigs}

\* A file: its JSON value and the layout of its text. json.dump(indent=2)
\* writes layout "indent2"; a file written by anything else may be "other".
Layouts == {"indent2", "other"}

Files == [json : Configs, layout : Layouts]

\* json.load(f)
Load(file) == file.json

\* json.dump(config, f, indent=2)
Dump(value) == [json |-> value, layout |-> "indent2"]

\* Lines 29-36: the two keys are added to code_predictor_config when missing.
AddDefaults(c) ==
    LET c1 == IF "use_sliding_window" \notin DOMAIN c
              THEN ("use_sliding_window" :> FALSE) @@ c ELSE c
    IN  IF "sliding_window" \notin DOMAIN c1
        THEN ("sliding_window" :> 72) @@ c1 ELSE c1

\* Whether the config has talker_config.code_predictor_config (lines 20, 24).
HasTargetField(cfg) ==
    /\ "talker_config" \in DOMAIN cfg
    /\ "code_predictor_config" \in DOMAIN cfg.talker_config

\* Lines 20-36 on the parsed config.
Patch(cfg) ==
    IF HasTargetField(cfg)
    THEN [cfg EXCEPT !.talker_config.code_predictor_config = AddDefaults(@)]
    ELSE cfg

\* os.rename(src, dst)
Rename(files, src, dst) ==
    [n \in (DOMAIN files \ {src}) \cup {dst} |-> IF n = dst THEN files[src] ELSE files[n]]

\* open(path, 'w') + json.dump
WriteFile(files, path, file) ==
    [n \in DOMAIN files \cup {path} |-> IF n = path THEN file ELSE files[n]]

FixInit ==
    /\ \E c \in Files :
        \/ fs = (ConfigPath :> c)
        \/ \E b \in Files : fs = (ConfigPath :> c) @@ (BackupPath :> b)
    /\ fpc = "start"
    /\ config = [model_type |-> "None"]
    /\ hist = <<fs>>

\* with open(config_path, 'r') as f: config = json.load(f)
FixRead ==
    /\ fpc = "start"
    /\ ConfigPath \in DOMAIN fs
    /\ config' = Load(fs[ConfigPath])
    /\ fpc' = "patch"
    /\ UNCHANGED <<textVars, ttsVars, fs, hist>>

\* Lines 20-36.
FixPatch ==
    /\ fpc = "patch"
    /\ config' = Patch(config)
    /\ fpc' = "backup"
    /\ UNCHANGED <<textVars, ttsVars, fs, hist>>

\* FixBackup renaming without testing whether the backup exists.
FixBackupAlways ==
    /\ fpc = "backup"
    /\ fs' = Rename(fs, ConfigPath, BackupPath)
    /\ fpc' = "write"
    /\ UNCHANGED <<textVars, ttsVars, config, hist>>

\* if not os.path.exists(backup_path): os.rename(config_path, backup_path)
FixBackup ==
    /\ fpc = "backup"
    /\ fs' = IF BackupPath \notin DOMAIN fs THEN Rename(fs, ConfigPath, BackupPath) ELSE fs
    /\ fpc' = "write"
    /\ UNCHANGED <<textVars, ttsVars, config, hist>>

\* with open(config_path, 'w') as f: json.dump(config, f, indent=2)
FixWrite ==
    /\ fpc = "write"
    /\ fs' = WriteFile(fs, ConfigPath, Dump(config))
    /\ hist' = Append(hist, fs')
    /\ fpc' = "done"
    /\ UNCHANGED <<textVars, ttsVars, config>>

\* The script is run again.
FixAgain ==
    /\ fpc = "done"
    /\ Len(hist) <= MaxRuns
    /\ fpc' = "start"
    /\ UNCHANGED <<textVars, ttsVars, fs, config, hist>>

\* One step of fix_config.
fix_config ==
    \/ FixRead
    \/ FixPatch
    \/ FixBackup
    \/ FixWrite
    \/ FixAgain

\* ========================================================= specifications
\* The part of the state a specification does not use stays as constructed.
TTSOff ==
    /\ tts_model = "None"
    /\ tts_model_loaded = FALSE
    /\ tpc = "off"
    /\ treq = [endpoint |-> "None"]
    /\ tresp = NoResponse

FixOff ==
    /\ fs = (ConfigPath :> Dump([model_type |-> "qwen3_omni_moe"]))
    /\ fpc = "off"
    /\ config = [model_type |-> "None"]
    /\ hist = <<fs>>

\* The text service: lifespan starts one loader thread, the event loop
\* dispatches requests and runs their handlers.
Init == TextInit /\ TTSOff /\ FixOff

Next ==
    \/ lifespan
    \/ load_model_async(1)
    \/ \E ep \in Endpoints : Dispatch(ep)
    \/ Handler

Spec == Init /\ [][Next]_vars

\* load_model_async called from NumCallers threads that may overlap.
NextReentry ==
    \E t \in Callers :
        \/ ThreadStart(t)
        \/ load_model_async(t)

SpecReentry == Init /\ [][NextReentry]_vars

\* The TTS service.
InitTTS == TextInit /\ TTSInit /\ FixOff

NextTTS ==
    \/ tts_lifespan
    \/ \E q \in TTSRequests :
        \/ text_to_speech(q)
        \/ openai_compatible_tts(q)

SpecTTS == InitTTS /\ [][NextTTS]_vars

\* The config patcher, run up to MaxRuns + 1 times in a row.
InitFix == TextInit /\ TTSOff /\ FixInit

NextFix == fix_config

SpecFix == InitFix /\ [][NextFix]_vars

\* ================================================================ claims
StillLoading == "Model is still loading, please wait..."

FailedToLoad == "Model failed to load"

InferenceAnswered == rpc = "done" /\ frame.endpoint \in InferenceEndpoints

HealthAnswered == rpc = "done" /\ frame.endpoint = "/health"

StatusAnswered == rpc = "done" /\ frame.endpoint = "/status"

\* C1: a request to an inference endpoint that read model_loaded = False is
\* answered 503 and never enters the adapter; while a handler is in the
\* adapter, and whenever it answered 200 or 500, it had read model_loaded = True.
C1_GateBlocksUnloaded ==
    /\ (rpc = "adapter" => frame.observed_loaded)
    /\ (InferenceAnswered => "observed_loaded" \in DOMAIN frame)
    /\ (InferenceAnswered /\ ~frame.observed_loaded => resp.code = 503)
    /\ (InferenceAnswered /\ resp.code \in {200, 500} => frame.observed_loaded)

\* C1 witness: a request read model_loaded = False, the load then completed,
\* and the request was still answered 503.
C1_Witness ==
    /\ InferenceAnswered
    /\ ~frame.observed_loaded
    /\ resp.code = 503
    /\ answered.loaded

\* C2: once ServiceState is loaded or failed, no step takes it to idle or
\* loading.
C2_Monotone ==
    [][(ServiceState \in {"loaded", "failed"}) => (ServiceState' \in {"loaded", "failed"})]_vars

\* C2 witness: a request issued in the failed state was answered while the
\* state was still failed, after the loader had ended.
C2_Witness ==
    /\ lpc[1] = "done"
    /\ ServiceState = "failed"
    /\ rpc = "done"
    /\ StateOf(issued) = "failed"

\* C3 (as claimed): whenever load_model_async has ended after raising an
\* exception, the flags are in the failed state and loading_error holds the
\* exception text.
C3_AnyExceptionCaught ==
    (lpc[1] \in {"done", "crashed"} /\ lexc[1] # "None") =>
        /\ ~model_loading
        /\ ~model_loaded
        /\ loading_error = lexc[1]

\* C4 (as claimed): GET /health reports idle/unhealthy before the load,
\* loading during it, healthy after a successful load, and after a failed
\* load reports failed together with the stored failure message.
C4_HealthSurfacesFailure ==
    HealthAnswered =>
        /\ (StateOf(issued) = "idle" /\ StateOf(answered) = "idle" =>
                resp.body.status = "unhealthy")
        /\ (issued.loading /\ answered.loading => resp.body.status = "loading")
        /\ (issued.loaded /\ ~issued.loading => resp.body.status = "healthy")
        /\ (StateOf(issued) = "failed" =>
                /\ resp.body.status = "failed"
                /\ "error" \in DOMAIN resp.body
                /\ resp.body.error = loading_error)

\* C4 (amended): GET /health reports unhealthy (loaded and loading false)
\* before the load, loading while model_loading is set, healthy once the
\* loader has finished a successful load, and after a failed load reports
\* unhealthy again, without any failure message; the stored message is the
\* error field of GET /status.
C4_HealthReflectsFlags ==
    /\ HealthAnswered =>
        /\ (StateOf(issued) = "idle" /\ StateOf(answered) = "idle" =>
                resp.body = HealthResponse("unhealthy", "DEVICE", FALSE, FALSE))
        /\ (issued.loading /\ answered.loading =>
                resp.body.status = "loading" /\ resp.body.loading)
        /\ (issued.loaded /\ ~issued.loading =>
                resp.body = HealthResponse("healthy", "model.device", TRUE, FALSE))
        /\ (StateOf(issued) = "failed" =>
                /\ resp.body.status = "unhealthy"
                /\ ~resp.body.loaded
                /\ ~resp.body.loading
                /\ "error" \notin DOMAIN resp.body)
    /\ StatusAnswered /\ StateOf(issued) = "failed" =>
        /\ resp.body.error = loading_error
        /\ resp.body.error # "None"

\* C4 witness: a /health request issued after a failed load was answered
\* unhealthy.
C4_Witness ==
    /\ HealthAnswered
    /\ StateOf(issued) = "failed"
    /\ resp.body.status = "unhealthy"

\* C5 (as claimed): a 503 says "still loading" only while a load is in
\* progress (model_loading set at the moment of the answer), and "failed to
\* load" only when the state at that moment is failed or idle, never when the
\* load has succeeded.
C5_ReasonMatchesState ==
    (InferenceAnswered /\ resp.code = 503) =>
        /\ (resp.detail = StillLoading => answered.loading)
        /\ (resp.detail = FailedToLoad => StateOf(answered) \in {"failed", "idle"})

\* The callers of load_model_async that passed the guard.
PassedGuard ==
    {t \in Callers : lpc[t] \notin {"not_started", "guard_loading", "guard_loaded", "returned"}}

\* C6 (as claimed): among any number of calls of load_model_async, at most
\* one passes the guard and runs the load body.
C6_LoadBodyOnce == Cardinality(PassedGuard) <= 1

\* C7: no step of a request handler (dispatch, read, answer) changes model,
\* processor, model_loading, model_loaded or loading_error; a request answered
\* 500 by the adapter leaves the state loaded.
C7_HandlersDoNotWrite ==
    [][rpc' # rpc =>
        /\ UNCHANGED globals
        /\ (rpc' = "done" /\ resp'.code = 500 => ServiceState' = "loaded")]_vars

\* C7 witness: the adapter failed a request with 500 and the state is loaded.
C7_Witness ==
    /\ InferenceAnswered
    /\ resp.code = 500
    /\ ServiceState = "loaded"

\* A TTS request was answered while the service runs without a loaded model.
AnsweredNotLoaded == tpc = "serving" /\ ~RealModel /\ treq.endpoint \in TTSEndpoints

\* C8 (as claimed): while the model is not loaded, both TTS inference
\* endpoints answer 503.
C8_UnavailableWhenNotLoaded == AnsweredNotLoaded => tresp.code = 503

\* C8 (amended): while the model is not loaded, POST /v1/audio/speech answers
\* 503 and POST /v1/tts never does: it answers 200 with the fallback tone
\* (real_model false), or 500 when the fallback raises; no request gets
\* real-model audio.
C8_SpeechUnavailableTtsFallback ==
    AnsweredNotLoaded =>
        /\ (treq.endpoint = "/v1/audio/speech" => tresp.code = 503)
        /\ (treq.endpoint = "/v1/tts" =>
                /\ tresp.code \in {200, 500}
                /\ (tresp.code = 200 => ~tresp.real_model))

\* C8 witness: POST /v1/tts answered 200 with fallback audio while no model
\* is loaded.
C8_Witness ==
    /\ AnsweredNotLoaded
    /\ treq.endpoint = "/v1/tts"
    /\ tresp.code = 200
    /\ ~tresp.real_model

\* C9: every run of fix_config after the first leaves config.json and the
\* backup as the first run left them, and the backup holds what it held
\* before the first run, or the original config.json when there was none.
C9_Idempotent ==
    Len(hist) >= 2 =>
        /\ \A i \in 2 .. Len(hist) : hist[i] = hist[2]
        /\ BackupPath \in DOMAIN hist[2]
        /\ hist[2][BackupPath] = IF BackupPath \in DOMAIN hist[1]
                                 THEN hist[1][BackupPath]
                                 ELSE hist[1][ConfigPath]

\* C9 witness: a second run has completed on a config the first run patched
\* and backed up.
C9_Witness ==
    /\ Len(hist) >= 3
    /\ BackupPath \notin DOMAIN hist[1]
    /\ Load(hist[2][ConfigPath]) # Load(hist[1][ConfigPath])

\* C10 (as claimed): a run on a config without
\* talker_config.code_predictor_config changes no file.
C10_UntouchedWithoutTargetField ==
    (Len(hist) >= 2 /\ ~HasTargetField(Load(hist[1][ConfigPath]))) => hist[2] = hist[1]

\* Fractions num/den with den > 0: order, equality, product with an integer.
FracLeq(a, b) == a.num * b.den <= b.num * a.den

FracEq(a, b) == a.num * b.den = b.num * a.den

FracTimes(a, k) == [num |-> a.num * k, den |-> a.den]

\* POST /v1/tts was answered with fallback audio.
FallbackAnswered == treq.endpoint = "/v1/tts" /\ tresp.code = 200 /\ ~tresp.real_model

\* len(text) / chars_per_sec / speed >= 1.0: the max(1.0, ...) leaves it alone.
Unclamped(len, has_chinese, speed100) == len * 100 >= CharsPerSec(has_chinese) * speed100

\* The duration of a fallback answer is no longer than that of any text at
\* least as long, with the same script and speed.
DurationMonotoneInLen ==
    \A n \in 1 .. MaxTextLen :
        n >= treq.len =>
            FracLeq(tresp.duration, Duration(n, treq.has_chinese, treq.speed))

\* C11 (as claimed): the fallback duration is non-decreasing in len(text) and
\* duration * speed is the same for every allowed speed.
C11_DurationInverseInSpeed ==
    FallbackAnswered =>
        /\ DurationMonotoneInLen
        /\ \A s \in Speeds :
               FracEq(FracTimes(tresp.duration, treq.speed),
                      FracTimes(Duration(treq.len, treq.has_chinese, s), s))

\* C11 (amended): the fallback duration is non-decreasing in len(text), at
\* least one second, non-increasing in speed, and duration * speed is the
\* same for the speeds at which len / chars_per_sec / speed >= 1.0.
C11_DurationInverseUnlessClamped ==
    FallbackAnswered =>
        /\ DurationMonotoneInLen
        /\ FracLeq([num |-> 1, den |-> 1], tresp.duration)
        /\ \A s \in Speeds :
               /\ s >= treq.speed =>
                      FracLeq(Duration(treq.len, treq.has_chinese, s), tresp.duration)
               /\ (/\ Unclamped(treq.len, treq.has_chinese, treq.speed)
                   /\ Unclamped(treq.len, treq.has_chinese, s)) =>
                      FracEq(FracTimes(tresp.duration, treq.speed),
                             FracTimes(Duration(treq.len, treq.has_chinese, s), s))

\* C11 witness: fallback audio longer than one second at the highest speed,
\* so every slower speed is unclamped too.
C11_Witness ==
    /\ FallbackAnswered
    /\ treq.speed = 200
    /\ ~FracLeq(tresp.duration, [num |-> 1, den |-> 1])

\* C12 (as claimed): model_loading and model_loaded are never both True, and
\* model_loaded = True implies that model and processor are set and that
\* loading_error is None.
C12_FlagsEncodeOneState ==
    /\ ~(model_loading /\ model_loaded)
    /\ (model_loaded =>
            /\ model # "None"
            /\ processor # "None"
            /\ loading_error = "None")

====
